---------------------------- MODULE Spec2Model ----------------------------
(***************************************************************************)
(* State-machine model of src/App.tsx: the App component's session         *)
(* lifecycle (cleanup, handleStartSession and the transport callbacks),    *)
(* the inline playback scheduler and the transcript aggregation of the     *)
(* onmessage handler.                                                      *)
(*                                                                         *)
(* React state and refs are the variables named as in the source.  The     *)
(* platform objects the component owns (audio contexts, microphone stream, *)
(* transport, buffer sources) are identified by the number of the start    *)
(* attempt that created them; their platform-side state is kept in ws,     *)
(* stream, ctxIn, ctxOut and chunks.  Every await of the source is a point *)
(* where other handlers may run: each segment between awaits is one        *)
(* action.                                                                 *)
(*                                                                         *)
(* Left out: the timestamp field of a transcript entry (Date.now()), and    *)
(* userProfile, selectedVoice and authStep: the sign-in screens change      *)
(* nothing else, and a signed-out user is two clicks from the dashboard.   *)
(***************************************************************************)
EXTENDS Integers, Sequences, FiniteSets

\* ---------------------------------------------------------------- bounds
MaxSessions == 2      \* start attempts (handleStartSession invocations)
MaxChunks   == 2      \* audio chunks that reach the decode step
MaxTime     == 3      \* ticks of one playback context's clock
MaxLen      == 2      \* characters held by the two transcription buffers together
MaxLog      == 2      \* entries of the conversation log
MaxFrames   == 3      \* captured audio frames
MaxPending  == 1      \* frames of one attempt waiting on its connect promise
\* the smaller bounds of the specifications that widen another dimension
FewSessions == 1
FewChunks   == 1

NULL == 0

Sessions == 1..MaxSessions
ChunkIds == 1..MaxChunks
Durations == {1, 2}                \* buffer.duration of a decoded chunk
Texts == {<<"a">>, <<" ">>}        \* partial transcription texts: non-blank, blank

IDLE == "idle"
CONNECTING == "connecting"
CONNECTED == "connected"
ERROR == "error"

\* errorMessage: null, or one of the two messages shown to the user.
NoError == "null"
MsgInitError == "Microphone access denied or connection failed."
MsgLinkError == "Voice interface link failed."

Faults == {"none", "close", "track", "source", "ctxIn", "ctxOut"}

VARIABLES
  \* React state (src/App.tsx:29-36)
  status, transcriptions, isModelSpeaking, errorMessage, hasRecorded,
  \* refs (src/App.tsx:38-44)
  audioContextInRef, audioContextOutRef, sessionRef, nextStartTimeRef,
  activeSourcesRef, transcriptionBufferRef, streamRef,
  \* platform objects, by start attempt
  nsess,      \* start attempts made so far
  pc,         \* where each handleStartSession invocation stands
  ws,         \* transport of each attempt
  stream,     \* microphone stream of each attempt
  ctxIn,      \* capture context of each attempt
  ctxOut,     \* playback context of each attempt
  clock,      \* currentTime of each attempt's playback context
  chunks,     \* audio chunks: awaited decodes and buffer sources
  pending,    \* captured frames of each attempt waiting on sessionPromise.then
  \* history
  lastEnd,    \* end time of the chunk scheduled last since the last reset, else 0
  sent,       \* captured frames handed to sendRealtimeInput so far
  dropped,    \* an audio payload has failed to decode
  last        \* the handler segment that ran last

vars == <<status, transcriptions, isModelSpeaking, errorMessage,
          hasRecorded, audioContextInRef, audioContextOutRef, sessionRef,
          nextStartTimeRef, activeSourcesRef, transcriptionBufferRef, streamRef,
          nsess, pc, ws, stream, ctxIn, ctxOut, clock, chunks, pending,
          lastEnd, sent, dropped, last>>

\* ---------------------------------------------------------------- helpers
Max(a, b) == IF a >= b THEN a ELSE b

\* AudioContext.currentTime of attempt s's playback context.
CurrentTime(s) == clock[s]

NoChunk == [st |-> "none", ctx |-> NULL, dur |-> 0, enq |-> 0, intr |-> FALSE, endAt |-> 0]
EndedChunk == [st |-> "ended", ctx |-> NULL, dur |-> 0, enq |-> 0, intr |-> FALSE, endAt |-> 0]

\* The record kept in last: the segment's name; for a segment of onmessage
\* whether it ran the turn-complete flush (139-148), the cursor clamp (156) and
\* the interruption branch (172-175), whether it ended the handling of a
\* message that carried the interruption signal, and whether the message
\* carried an audio payload; for a run of cleanup the release call that failed
\* and whether the segment before it was a run of cleanup too; for a segment
\* that called sendRealtimeInput with captured frames (122) the attempt
\* whose frames they were.
Op(name) ==
  [op |-> name, turnComplete |-> FALSE, clamped |-> FALSE,
   interrupted |-> FALSE, signal |-> FALSE, audio |-> FALSE,
   fault |-> "none", again |-> FALSE, dispatched |-> NULL]

CleanupOps == {"stop", "logout", "onclose"}

CleanupOp(name, flt) ==
  [Op(name) EXCEPT !.fault = flt, !.again = last.op \in CleanupOps]

\* String.prototype.trim(): strip leading and trailing whitespace.
RECURSIVE TrimLeft(_)
TrimLeft(s) == IF s # <<>> /\ Head(s) = " " THEN TrimLeft(Tail(s)) ELSE s

RECURSIVE TrimRight(_)
TrimRight(s) ==
  IF s # <<>> /\ s[Len(s)] = " " THEN TrimRight(SubSeq(s, 1, Len(s) - 1)) ELSE s

\* Mutant of Trim: the buffer is tested as it stands.
TrimForgotten(s) == s

Trim(s) == TrimRight(TrimLeft(s))

\* A string is truthy iff it is not empty.
Truthy(s) == s # <<>>

Init ==
  /\ status = IDLE
  /\ transcriptions = <<>>
  /\ isModelSpeaking = FALSE
  /\ errorMessage = NoError
  /\ hasRecorded = FALSE
  /\ audioContextInRef = NULL
  /\ audioContextOutRef = NULL
  /\ sessionRef = NULL
  /\ nextStartTimeRef = 0
  /\ activeSourcesRef = {}
  /\ transcriptionBufferRef = [input |-> <<>>, output |-> <<>>]
  /\ streamRef = NULL
  /\ nsess = 0
  /\ pc = [s \in Sessions |-> "none"]
  /\ ws = [s \in Sessions |-> "none"]
  /\ stream = [s \in Sessions |-> "none"]
  /\ ctxIn = [s \in Sessions |-> "none"]
  /\ ctxOut = [s \in Sessions |-> "none"]
  /\ clock = [s \in Sessions |-> 0]
  /\ chunks = [c \in ChunkIds |-> NoChunk]
  /\ pending = [s \in Sessions |-> 0]
  /\ lastEnd = 0
  /\ sent = 0
  /\ dropped = FALSE
  /\ last = Op("init")


\* ------------------------------------------------- teardown (cleanup)
\* session.close() on a transport: the close event follows later.
CloseTransport(w, s) ==
  [w EXCEPT ![s] = IF @ \in {"open", "failed"} THEN "closing" ELSE @]

\* source.stop() on every member of a set of sources; the ended event of a
\* stopped source follows later.
StopSources(ch, set) ==
  [c \in ChunkIds |->
     IF c \in set /\ ch[c].st = "playing"
       THEN [EndedChunk EXCEPT !.st = "stopped", !.ctx = ch[c].ctx]
       ELSE ch[c]]

\* track.stop() is the one release call of cleanup outside a try/catch and
\* without a rejection handler: if it throws, cleanup ends there.
CleanupThrows(flt) == flt = "track" /\ streamRef # NULL

\* Mutant of Cleanup: streamRef is not reset after the tracks are stopped.
CleanupKeepsStreamRef(w, flt) ==
  /\ ws' = IF sessionRef # NULL /\ flt # "close"
             THEN CloseTransport(w, sessionRef) ELSE w
  /\ sessionRef' = NULL
  /\ IF CleanupThrows(flt)
       THEN UNCHANGED <<streamRef, stream, chunks, activeSourcesRef,
                        audioContextInRef, ctxIn, audioContextOutRef, ctxOut,
                        status, isModelSpeaking, hasRecorded>>
       ELSE
         /\ stream' = IF streamRef # NULL
                        THEN [stream EXCEPT ![streamRef] = "stopped"] ELSE stream
         /\ UNCHANGED streamRef
         /\ chunks' = IF flt = "source" THEN chunks
                      ELSE StopSources(chunks, activeSourcesRef)
         /\ activeSourcesRef' = {}
         /\ ctxIn' = IF audioContextInRef # NULL /\ flt # "ctxIn"
                       THEN [ctxIn EXCEPT ![audioContextInRef] = "closed"] ELSE ctxIn
         /\ audioContextInRef' = NULL
         /\ ctxOut' = IF audioContextOutRef # NULL /\ flt # "ctxOut"
                        THEN [ctxOut EXCEPT ![audioContextOutRef] = "closed"] ELSE ctxOut
         /\ audioContextOutRef' = NULL
         /\ status' = IDLE
         /\ isModelSpeaking' = FALSE
         /\ hasRecorded' = FALSE

\* cleanup(), src/App.tsx:46-72.  w is the transports' state when cleanup is
\* entered; flt names the release call that fails during this run, if any.
Cleanup(w, flt) ==
  /\ ws' = IF sessionRef # NULL /\ flt # "close"
             THEN CloseTransport(w, sessionRef) ELSE w
  /\ sessionRef' = NULL
  /\ IF CleanupThrows(flt)
       THEN UNCHANGED <<streamRef, stream, chunks, activeSourcesRef,
                        audioContextInRef, ctxIn, audioContextOutRef, ctxOut,
                        status, isModelSpeaking, hasRecorded>>
       ELSE
         /\ stream' = IF streamRef # NULL
                        THEN [stream EXCEPT ![streamRef] = "stopped"] ELSE stream
         /\ streamRef' = NULL
         /\ chunks' = IF flt = "source" THEN chunks
                      ELSE StopSources(chunks, activeSourcesRef)
         /\ activeSourcesRef' = {}
         /\ ctxIn' = IF audioContextInRef # NULL /\ flt # "ctxIn"
                       THEN [ctxIn EXCEPT ![audioContextInRef] = "closed"] ELSE ctxIn
         /\ audioContextInRef' = NULL
         /\ ctxOut' = IF audioContextOutRef # NULL /\ flt # "ctxOut"
                        THEN [ctxOut EXCEPT ![audioContextOutRef] = "closed"] ELSE ctxOut
         /\ audioContextOutRef' = NULL
         /\ status' = IDLE
         /\ isModelSpeaking' = FALSE
         /\ hasRecorded' = FALSE

\* Mutant of CleanupFrame: teardown empties the conversation log.
CleanupFrameClearsLog ==
  /\ transcriptions' = <<>>
  /\ UNCHANGED <<errorMessage, nextStartTimeRef, transcriptionBufferRef, nsess,
                 pc, clock, lastEnd,
                 pending, sent, dropped>>

\* What cleanup never touches.
CleanupFrame ==
  UNCHANGED <<transcriptions, errorMessage, nextStartTimeRef,
              transcriptionBufferRef, nsess, pc, clock, lastEnd,
                 pending, sent, dropped>>

\* ------------------------------------------------- presentation layer
\* handleLogout, src/App.tsx:210-214 (the cleanup call; the rest changes the
\* sign-in state only).
handleLogout(flt) ==
  /\ Cleanup(ws, flt)
  /\ CleanupFrame
  /\ last' = CleanupOp("logout", flt)

\* Mutant of ButtonDisabled: the round button is never disabled.
ButtonNeverDisabled == FALSE

\* The round button's disabled attribute, src/App.tsx:326.
ButtonDisabled == status = CONNECTING

\* The round button's onClick, src/App.tsx:325: handleStopSession when the
\* status is CONNECTED, else handleStartSession.
ButtonStarts == status # CONNECTED

\* handleStopSession, src/App.tsx:74-76; the round button calls it when the
\* status is CONNECTED (src/App.tsx:325).
handleStopSession(flt) ==
  /\ ~ButtonDisabled /\ ~ButtonStarts
  /\ Cleanup(ws, flt)
  /\ CleanupFrame
  /\ last' = CleanupOp("stop", flt)

\* ------------------------------------------------- handleStartSession
\* src/App.tsx:78-88: up to the first await.  The round button calls it when
\* the status is not CONNECTED and is disabled while CONNECTING (325-326).
handleStartSession ==
  /\ ~ButtonDisabled /\ ButtonStarts
  /\ nsess' = nsess + 1
  /\ errorMessage' = NoError
  /\ status' = CONNECTING
  /\ ctxIn' = [ctxIn EXCEPT ![nsess + 1] = "running"]
  /\ ctxOut' = [ctxOut EXCEPT ![nsess + 1] = "running"]
  /\ pc' = [pc EXCEPT ![nsess + 1] = "resumeIn"]
  /\ last' = Op("start")
  /\ UNCHANGED <<transcriptions, isModelSpeaking, hasRecorded,
                 audioContextInRef, audioContextOutRef, sessionRef,
                 nextStartTimeRef, activeSourcesRef, transcriptionBufferRef,
                 streamRef, ws, stream, clock, chunks, lastEnd,
                 pending, sent, dropped>>

\* src/App.tsx:88-89: audioContextIn.resume() settled, audioContextOut.resume()
\* awaited.
ResumedIn(s) ==
  /\ pc[s] = "resumeIn"
  /\ pc' = [pc EXCEPT ![s] = "resumeOut"]
  /\ last' = Op("await")
  /\ UNCHANGED <<status, transcriptions, isModelSpeaking, errorMessage,
                 hasRecorded, audioContextInRef, audioContextOutRef, sessionRef,
                 nextStartTimeRef, activeSourcesRef, transcriptionBufferRef,
                 streamRef, nsess, ws, stream, ctxIn, ctxOut, clock, chunks,
                 lastEnd,
                 pending, sent, dropped>>

\* src/App.tsx:89-94: both contexts resumed, refs set, getUserMedia awaited.
ResumedOut(s) ==
  /\ pc[s] = "resumeOut"
  /\ audioContextInRef' = s
  /\ audioContextOutRef' = s
  /\ pc' = [pc EXCEPT ![s] = "getUserMedia"]
  /\ last' = Op("await")
  /\ UNCHANGED <<status, transcriptions, isModelSpeaking, errorMessage,
                 hasRecorded, sessionRef, nextStartTimeRef, activeSourcesRef,
                 transcriptionBufferRef, streamRef, nsess, ws, stream, ctxIn,
                 ctxOut, clock, chunks, lastEnd,
                 pending, sent, dropped>>

\* src/App.tsx:94-98 and 189: getUserMedia resolved, streamRef set,
\* ai.live.connect called and its promise awaited.
MicGranted(s) ==
  /\ pc[s] = "getUserMedia"
  /\ stream' = [stream EXCEPT ![s] = "live"]
  /\ streamRef' = s
  /\ ws' = [ws EXCEPT ![s] = "connecting"]
  /\ pc' = [pc EXCEPT ![s] = "connect"]
  /\ last' = Op("await")
  /\ UNCHANGED <<status, transcriptions, isModelSpeaking, errorMessage,
                 hasRecorded, audioContextInRef, audioContextOutRef, sessionRef,
                 nextStartTimeRef, activeSourcesRef, transcriptionBufferRef,
                 nsess, ctxIn, ctxOut, clock, chunks, lastEnd,
                 pending, sent, dropped>>

\* The catch block, src/App.tsx:190-194.
CatchInitError ==
  /\ status' = ERROR
  /\ errorMessage' = MsgInitError

\* Mutant of MicDenied: the rejection is swallowed and connect is called.
MicDeniedIgnored(s) ==
  /\ pc[s] = "getUserMedia"
  /\ CatchInitError
  /\ pc' = [pc EXCEPT ![s] = "denied"]
  /\ ws' = [ws EXCEPT ![s] = "connecting"]
  /\ last' = Op("micDenied")
  /\ UNCHANGED <<transcriptions, isModelSpeaking, hasRecorded,
                 audioContextInRef, audioContextOutRef, sessionRef,
                 nextStartTimeRef, activeSourcesRef, transcriptionBufferRef,
                 streamRef, nsess, stream, ctxIn, ctxOut, clock, chunks,
                 lastEnd, pending, sent, dropped>>

\* src/App.tsx:94 and 190-194: getUserMedia rejected.
MicDenied(s) ==
  /\ pc[s] = "getUserMedia"
  /\ CatchInitError
  /\ pc' = [pc EXCEPT ![s] = "denied"]
  /\ last' = Op("micDenied")
  /\ UNCHANGED <<transcriptions, isModelSpeaking, hasRecorded,
                 audioContextInRef, audioContextOutRef, sessionRef,
                 nextStartTimeRef, activeSourcesRef, transcriptionBufferRef,
                 streamRef, nsess, ws, stream, ctxIn, ctxOut, clock, chunks,
                 lastEnd,
                 pending, sent, dropped>>

\* src/App.tsx:189-194: the connect promise rejected before the transport
\* opened.
ConnectFailed(s) ==
  /\ pc[s] = "connect"
  /\ ws[s] = "connecting"
  /\ ws' = [ws EXCEPT ![s] = "closed"]
  /\ CatchInitError
  /\ pc' = [pc EXCEPT ![s] = "failed"]
  /\ last' = Op("connectFailed")
  /\ UNCHANGED <<transcriptions, isModelSpeaking, hasRecorded,
                 audioContextInRef, audioContextOutRef, sessionRef,
                 nextStartTimeRef, activeSourcesRef, transcriptionBufferRef,
                 streamRef, nsess, stream, ctxIn, ctxOut, clock, chunks,
                 lastEnd,
                 pending, sent, dropped>>

\* src/App.tsx:189: the connect promise resolved (the transport has opened)
\* and the session is stored; then the reactions registered on the promise by
\* onaudioprocess run (119-124): the session is truthy, every waiting frame
\* is sent.
ConnectResolved(s) ==
  /\ pc[s] = "connect"
  /\ ws[s] \notin {"none", "connecting"}
  /\ sessionRef' = s
  /\ pc' = [pc EXCEPT ![s] = "done"]
  /\ sent' = sent + pending[s]
  /\ pending' = [pending EXCEPT ![s] = 0]
  /\ last' = [Op("connectResolved") EXCEPT
                !.dispatched = IF pending[s] > 0 THEN s ELSE NULL]
  /\ UNCHANGED <<status, transcriptions, isModelSpeaking, errorMessage,
                 hasRecorded, audioContextInRef, audioContextOutRef,
                 nextStartTimeRef, activeSourcesRef, transcriptionBufferRef,
                 streamRef, nsess, ws, stream, ctxIn, ctxOut, clock, chunks,
                 lastEnd, dropped>>

\* ------------------------------------------------- transport callbacks
\* onopen, src/App.tsx:110-129.
onopen(s) ==
  /\ ws[s] = "connecting"
  /\ ws' = [ws EXCEPT ![s] = "open"]
  /\ status' = CONNECTED
  /\ last' = Op("onopen")
  /\ UNCHANGED <<transcriptions, isModelSpeaking, errorMessage,
                 hasRecorded, audioContextInRef, audioContextOutRef, sessionRef,
                 nextStartTimeRef, activeSourcesRef, transcriptionBufferRef,
                 streamRef, nsess, pc, stream, ctxIn, ctxOut, clock, chunks,
                 lastEnd,
                 pending, sent, dropped>>

\* onerror, src/App.tsx:178-182: an error event of an open transport; its close
\* event follows.
onerror(s) ==
  /\ ws[s] = "open"
  /\ ws' = [ws EXCEPT ![s] = "failed"]
  /\ status' = ERROR
  /\ errorMessage' = MsgLinkError
  /\ last' = Op("onerror")
  /\ UNCHANGED <<transcriptions, isModelSpeaking, hasRecorded,
                 audioContextInRef, audioContextOutRef, sessionRef,
                 nextStartTimeRef, activeSourcesRef, transcriptionBufferRef,
                 streamRef, nsess, pc, stream, ctxIn, ctxOut, clock, chunks,
                 lastEnd,
                 pending, sent, dropped>>

\* onclose, src/App.tsx:183-186: the close event of a transport, remote or
\* following close() or an error.
onclose(s, flt) ==
  /\ ws[s] \in {"open", "failed", "closing"}
  /\ Cleanup([ws EXCEPT ![s] = "closed"], flt)
  /\ CleanupFrame
  /\ last' = CleanupOp("onclose", flt)

\* scriptProcessor.onaudioprocess, src/App.tsx:116-125: the processor made by
\* onopen fires while its capture context runs.  The frame is sent in a
\* reaction to sessionPromise: at once when the promise has resolved, else
\* when it resolves.
onaudioprocess(s) ==
  LET resolved == pc[s] = "done" IN
  /\ ws[s] \notin {"none", "connecting"}
  /\ pc[s] # "failed"
  /\ ctxIn[s] = "running"
  /\ sent' = IF resolved THEN sent + 1 ELSE sent
  /\ pending' = IF resolved THEN pending ELSE [pending EXCEPT ![s] = @ + 1]
  /\ last' = [Op("onaudioprocess") EXCEPT
                !.dispatched = IF resolved THEN s ELSE NULL]
  /\ UNCHANGED <<status, transcriptions, isModelSpeaking, errorMessage,
                 hasRecorded, audioContextInRef, audioContextOutRef, sessionRef,
                 nextStartTimeRef, activeSourcesRef, transcriptionBufferRef,
                 streamRef, nsess, pc, ws, stream, ctxIn, ctxOut, clock, chunks,
                 lastEnd, dropped>>

\* The clock of a running playback context advances.
Tick(s) ==
  /\ ctxOut[s] = "running"
  /\ clock' = [clock EXCEPT ![s] = @ + 1]
  /\ last' = Op("tick")
  /\ UNCHANGED <<status, transcriptions, isModelSpeaking, errorMessage,
                 hasRecorded, audioContextInRef, audioContextOutRef, sessionRef,
                 nextStartTimeRef, activeSourcesRef, transcriptionBufferRef,
                 streamRef, nsess, pc, ws, stream, ctxIn, ctxOut, chunks,
                 lastEnd,
                 pending, sent, dropped>>

\* ------------------------------------------------- onmessage
\* A LiveServerMessage, by the fields of serverContent the handler reads.
\* No transcription and a transcription with empty text are one case (<<>>).
TextOpt == Texts \cup {<<>>}

Messages ==
  [inputTranscription : TextOpt, outputTranscription : TextOpt,
   turnComplete : BOOLEAN, audio : {"none", "noparts", "bad"}, duration : {0},
   interrupted : BOOLEAN]
  \cup
  [inputTranscription : TextOpt, outputTranscription : TextOpt,
   turnComplete : BOOLEAN, audio : {"ok"}, duration : Durations,
   interrupted : BOOLEAN]

\* modelTurn?.parts[0], src/App.tsx:151: throws a TypeError on a modelTurn
\* that has no parts array.
PartsThrows(m) == m.audio = "noparts"

\* decode(audioData): throws on a malformed payload.
DecodeThrows(m) == m.audio = "bad"

\* decodeAudioData(...).duration of a well-formed payload.
BufferDuration(m) == m.duration

\* Mutant of AppendPartials: each text goes to the other speaker's buffer.
AppendPartialsCrossed(buf, m) ==
  [input |-> buf.input \o m.outputTranscription,
   output |-> buf.output \o m.inputTranscription]

\* src/App.tsx:131-136: the partial transcription texts are appended.
AppendPartials(buf, m) ==
  [input |-> buf.input \o m.inputTranscription,
   output |-> buf.output \o m.outputTranscription]

\* src/App.tsx:139-147: the entries a turn-complete flush appends to the log.
FlushEntries(buf) ==
  (IF Truthy(Trim(buf.input))
     THEN <<[role |-> "user", text |-> buf.input]>> ELSE <<>>)
  \o
  (IF Truthy(Trim(buf.output))
     THEN <<[role |-> "model", text |-> buf.output]>> ELSE <<>>)

EmptyBuffer == [input |-> <<>>, output |-> <<>>]

\* Mutant of ClampCursor: the clamp forgotten.
ClampCursorForgotten(cursor, ctx) == cursor

\* src/App.tsx:156: the cursor is clamped up to the context's clock.
ClampCursor(cursor, ctx) == Max(cursor, CurrentTime(ctx))

\* Mutant of AdvanceCursor: the cursor stays at the start of the chunk.
AdvanceCursorForgotten(cursor, dur) == cursor

\* src/App.tsx:166: the cursor moves past the chunk just started.
AdvanceCursor(cursor, dur) == cursor + dur

\* src/App.tsx:174: the cursor after an interruption.
InterruptCursor == 0

\* The identifier of the next chunk to reach the decode step.
FreeChunks == {c \in ChunkIds : chunks[c].st = "none"}
NextChunk == CHOOSE c \in FreeChunks : \A d \in FreeChunks : c <= d

\* onmessage up to its await or, without one, to its end: src/App.tsx:130-157
\* and, when the audio branch does not await, 171-176. A modelTurn without a
\* parts array makes the handler throw at line 151, after the transcript
\* lines and before the audio and interruption branches.
onmessage(s, m) ==
  LET buf1 == AppendPartials(transcriptionBufferRef, m)
      entries == IF m.turnComplete THEN FlushEntries(buf1) ELSE <<>>
      ctx == audioContextOutRef
      hasAudio == ~PartsThrows(m) /\ m.audio # "none"
      clamps == hasAudio /\ ctx # NULL
      throws == clamps /\ DecodeThrows(m)
      awaits == clamps /\ ~DecodeThrows(m)
      interrupts == m.interrupted /\ ~PartsThrows(m) /\ ~throws /\ ~awaits
      cursor1 == IF clamps THEN ClampCursor(nextStartTimeRef, ctx)
                 ELSE nextStartTimeRef
  IN
  /\ ws[s] = "open"
  /\ transcriptions' = transcriptions \o entries
  /\ hasRecorded' = IF m.turnComplete /\ Truthy(Trim(buf1.input))
                      THEN TRUE ELSE hasRecorded
  /\ transcriptionBufferRef' = IF m.turnComplete THEN EmptyBuffer ELSE buf1
  /\ isModelSpeaking' = IF interrupts THEN FALSE
                        ELSE IF hasAudio THEN TRUE ELSE isModelSpeaking
  /\ nextStartTimeRef' = IF interrupts THEN InterruptCursor ELSE cursor1
  /\ chunks' = IF awaits
                 THEN [chunks EXCEPT ![NextChunk] =
                         [st |-> "decoding", ctx |-> ctx,
                          dur |-> BufferDuration(m), enq |-> CurrentTime(ctx),
                          intr |-> m.interrupted, endAt |-> 0]]
               ELSE IF interrupts THEN StopSources(chunks, activeSourcesRef)
               ELSE chunks
  /\ activeSourcesRef' = IF interrupts THEN {} ELSE activeSourcesRef
  /\ lastEnd' = IF interrupts THEN 0 ELSE lastEnd
  /\ last' = [Op(IF PartsThrows(m) THEN "partsThrew"
                 ELSE IF throws THEN "decodeThrew" ELSE "onmessage") EXCEPT
                !.turnComplete = m.turnComplete, !.clamped = clamps,
                !.interrupted = interrupts,
                !.signal = m.interrupted /\ ~awaits,
                !.audio = hasAudio]
  /\ dropped' = (dropped \/ throws)
  /\ UNCHANGED <<status, errorMessage, audioContextInRef,
                 audioContextOutRef, sessionRef, streamRef, nsess, pc, ws,
                 stream, ctxIn, ctxOut, clock, pending, sent>>

\* onmessage after its await: src/App.tsx:157-168 and 171-176.
Decoded(c) ==
  LET ch == chunks[c]
      start == nextStartTimeRef
      playing == [st |-> "playing", ctx |-> ch.ctx, dur |-> 0, enq |-> 0,
                  intr |-> FALSE,
                  endAt |-> Max(start, CurrentTime(ch.ctx)) + ch.dur]
      chunks1 == [chunks EXCEPT ![c] = playing]
      active1 == activeSourcesRef \cup {c}
  IN
  /\ ch.st = "decoding"
  /\ chunks' = IF ch.intr THEN StopSources(chunks1, active1) ELSE chunks1
  /\ activeSourcesRef' = IF ch.intr THEN {} ELSE active1
  /\ nextStartTimeRef' = IF ch.intr THEN InterruptCursor
                         ELSE AdvanceCursor(start, ch.dur)
  /\ isModelSpeaking' = IF ch.intr THEN FALSE ELSE isModelSpeaking
  /\ lastEnd' = IF ch.intr THEN 0 ELSE start + ch.dur
  /\ last' = [Op("decoded") EXCEPT !.interrupted = ch.intr, !.signal = ch.intr]
  /\ UNCHANGED <<status, transcriptions, errorMessage, hasRecorded,
                 audioContextInRef, audioContextOutRef, sessionRef,
                 transcriptionBufferRef, streamRef, nsess, pc, ws, stream,
                 ctxIn, ctxOut, clock,
                 pending, sent, dropped>>

\* source.onended, src/App.tsx:161-164: the source played to its end on a
\* running context, or was stopped.
onended(c) ==
  LET ch == chunks[c] IN
  /\ \/ ch.st = "stopped"
     \/ /\ ch.st = "playing"
        /\ ctxOut[ch.ctx] = "running"
        /\ CurrentTime(ch.ctx) >= ch.endAt
  /\ chunks' = [chunks EXCEPT ![c] = EndedChunk]
  /\ activeSourcesRef' = activeSourcesRef \ {c}
  /\ isModelSpeaking' = IF activeSourcesRef \ {c} = {} THEN FALSE
                        ELSE isModelSpeaking
  /\ last' = Op("onended")
  /\ UNCHANGED <<status, transcriptions, errorMessage, hasRecorded,
                 audioContextInRef, audioContextOutRef, sessionRef,
                 nextStartTimeRef, transcriptionBufferRef, streamRef, nsess, pc,
                 ws, stream, ctxIn, ctxOut, clock, lastEnd,
                 pending, sent, dropped>>

\* ------------------------------------------------- specifications
\* An environment: how many start attempts, chunks and clock ticks it makes,
\* how much text it sends, which messages it sends and which release calls
\* of cleanup it lets fail.
UsedChunks == {c \in ChunkIds : chunks[c].st # "none"}

Fits(m, B) ==
  LET buf1 == AppendPartials(transcriptionBufferRef, m) IN
  /\ Len(buf1.input) + Len(buf1.output) <= B.len
  /\ Len(transcriptions) + (IF m.turnComplete THEN Len(FlushEntries(buf1)) ELSE 0)
       <= B.log
  /\ m.audio = "ok" => Cardinality(UsedChunks) < B.chunks

\* The presentation layer's calls.
UserStep(B) ==
  \/ \E f \in B.faults : handleLogout(f)
  \/ \E f \in B.faults : handleStopSession(f)
  \/ nsess < B.sessions /\ handleStartSession

\* The continuations of handleStartSession and the transport's lifecycle
\* callbacks.
SessionStep(B) ==
  \/ \E s \in Sessions : ResumedIn(s)
  \/ \E s \in Sessions : ResumedOut(s)
  \/ \E s \in Sessions : MicGranted(s)
  \/ \E s \in Sessions : MicDenied(s)
  \/ \E s \in Sessions : ConnectFailed(s)
  \/ \E s \in Sessions : ConnectResolved(s)
  \/ \E s \in Sessions : onopen(s)
  \/ \E s \in Sessions : onerror(s)
  \/ \E s \in Sessions, f \in B.faults : onclose(s, f)

\* Inbound messages and the playback callbacks.
MessageStep(B) ==
  \/ \E s \in Sessions, m \in B.msgs : Fits(m, B) /\ onmessage(s, m)
  \/ \E c \in ChunkIds : Decoded(c)
  \/ \E c \in ChunkIds : onended(c)

ClockStep(B) == \E s \in Sessions : clock[s] < B.ticks /\ Tick(s)

\* The capture callbacks: at most MaxFrames frames captured, at most one
\* waiting on the promise.
CaptureStep ==
  \E s \in Sessions :
    /\ sent + pending[s] < MaxFrames
    /\ pending[s] < MaxPending
    /\ onaudioprocess(s)

NoMessage ==
  [inputTranscription |-> <<>>, outputTranscription |-> <<>>,
   turnComplete |-> FALSE, audio |-> "none", duration |-> 0,
   interrupted |-> FALSE]

\* Every combination of audio payload and interruption signal, no text.
AudioMessages ==
  {m \in Messages : /\ m.inputTranscription = <<>>
                    /\ m.outputTranscription = <<>>
                    /\ ~m.turnComplete}

\* Every combination of partial texts and turn-complete signal, no audio.
TextMessages == {m \in Messages : m.audio = "none" /\ ~m.interrupted}

\* One audio chunk and the interruption signal.
PlaybackMessages ==
  { [NoMessage EXCEPT !.audio = "ok", !.duration = 1],
    [NoMessage EXCEPT !.interrupted = TRUE] }

\* The session lifecycle: two start attempts, one audio chunk, no text and
\* a clock that stands still.
LifeBounds ==
  [sessions |-> MaxSessions, chunks |-> FewChunks, ticks |-> 0,
   len |-> 0, log |-> 0, msgs |-> PlaybackMessages, faults |-> {"none"}]

Next == UserStep(LifeBounds) \/ SessionStep(LifeBounds) \/ MessageStep(LifeBounds)

Spec == Init /\ [][Next]_vars

\* The playback scheduler: one start attempt, more chunks, running clocks,
\* every audio message.
AudioBounds ==
  [sessions |-> FewSessions, chunks |-> MaxChunks, ticks |-> MaxTime,
   len |-> 0, log |-> 0, msgs |-> AudioMessages, faults |-> {"none"}]

NextAudio ==
  \/ UserStep(AudioBounds)
  \/ SessionStep(AudioBounds)
  \/ MessageStep(AudioBounds)
  \/ ClockStep(AudioBounds)

SpecAudio == Init /\ [][NextAudio]_vars

\* The transcript aggregator: one start attempt, every text message, one
\* audio chunk and the interruption signal.
TextBounds ==
  [sessions |-> FewSessions, chunks |-> FewChunks, ticks |-> 0,
   len |-> MaxLen, log |-> MaxLog, msgs |-> TextMessages \cup PlaybackMessages,
   faults |-> {"none"}]

NextText == UserStep(TextBounds) \/ SessionStep(TextBounds) \/ MessageStep(TextBounds)

SpecText == Init /\ [][NextText]_vars

\* Teardown with one release call of each run of cleanup failing.
FaultBounds ==
  [sessions |-> FewSessions, chunks |-> FewChunks, ticks |-> 0,
   len |-> 0, log |-> 0, msgs |-> PlaybackMessages, faults |-> Faults]

NextFaults ==
  UserStep(FaultBounds) \/ SessionStep(FaultBounds) \/ MessageStep(FaultBounds)

SpecFaults == Init /\ [][NextFaults]_vars

\* The capture pipeline: one start attempt with the capture callbacks.
CaptureBounds ==
  [sessions |-> FewSessions, chunks |-> FewChunks, ticks |-> 0,
   len |-> 0, log |-> 0, msgs |-> PlaybackMessages, faults |-> {"none"}]

NextCapture ==
  \/ UserStep(CaptureBounds)
  \/ SessionStep(CaptureBounds)
  \/ MessageStep(CaptureBounds)
  \/ CaptureStep

SpecCapture == Init /\ [][NextCapture]_vars

\* One conversation turn, in order: start, microphone granted, transport
\* open, MaxFrames frames captured, the partial input text "Hola",
\* turn-complete, one audio chunk, the interruption signal while the chunk
\* plays; the clock runs throughout.
Hola == <<"H", "o", "l", "a">>

HolaMessage == [NoMessage EXCEPT !.inputTranscription = Hola]
TurnCompleteMessage == [NoMessage EXCEPT !.turnComplete = TRUE]
ChunkMessages == {[NoMessage EXCEPT !.audio = "ok", !.duration = d] : d \in Durations}
InterruptedMessage == [NoMessage EXCEPT !.interrupted = TRUE]

ScenarioBounds ==
  [sessions |-> FewSessions, chunks |-> FewChunks, ticks |-> MaxTime,
   len |-> Len(Hola), log |-> 1,
   msgs |-> {HolaMessage, TurnCompleteMessage, InterruptedMessage} \cup ChunkMessages,
   faults |-> {"none"}]

ScenarioStep ==
  \/ nsess < ScenarioBounds.sessions /\ handleStartSession
  \/ \E s \in Sessions : ResumedIn(s)
  \/ \E s \in Sessions : ResumedOut(s)
  \/ \E s \in Sessions : MicGranted(s)
  \/ \E s \in Sessions : onopen(s)
  \/ \E s \in Sessions : ConnectResolved(s)
  \/ \E s \in Sessions :
       /\ sent = MaxFrames
       /\ transcriptionBufferRef = EmptyBuffer /\ transcriptions = <<>>
       /\ onmessage(s, HolaMessage)
  \/ \E s \in Sessions :
       /\ transcriptionBufferRef # EmptyBuffer
       /\ onmessage(s, TurnCompleteMessage)
  \/ \E s \in Sessions, m \in ChunkMessages :
       /\ transcriptions # <<>> /\ UsedChunks = {}
       /\ onmessage(s, m)
  \/ \E c \in ChunkIds : Decoded(c)
  \/ \E s \in Sessions :
       /\ \E c \in activeSourcesRef : chunks[c].st = "playing"
       /\ onmessage(s, InterruptedMessage)
  \/ \E c \in ChunkIds : onended(c)

NextScenario == ScenarioStep \/ CaptureStep \/ ClockStep(ScenarioBounds)

SpecScenario == Init /\ [][NextScenario]_vars

\* Playback left to run: a decode that is awaited resolves, the clock of a
\* running playback context advances (as far as MaxTime, and further while a
\* source has yet to reach its end), a source that has reached its end or
\* was stopped fires its ended event, and the close event of a transport that
\* failed or was closed arrives.  Messages, user actions and a remote close
\* may stop coming at any time.
PlaybackClockStep(B) ==
  \E s \in Sessions :
    /\ \/ clock[s] < B.ticks
       \/ \E c \in ChunkIds :
            chunks[c].st = "playing" /\ chunks[c].ctx = s /\ chunks[c].endAt > clock[s]
    /\ Tick(s)

\* The ended events the platform is bound to deliver: those of sources whose
\* playback context is still running. A source whose context was closed
\* (cleanup stops the sources and closes their context in one task) may
\* never fire its ended event.
EndedEventFollows ==
  \E c \in ChunkIds :
    /\ chunks[c].ctx \in Sessions
    /\ ctxOut[chunks[c].ctx] = "running"
    /\ onended(c)

CloseEventFollows ==
  \E s \in Sessions : ws[s] \in {"failed", "closing"} /\ onclose(s, "none")

LiveBounds ==
  [sessions |-> FewSessions, chunks |-> FewChunks, ticks |-> MaxTime,
   len |-> 0, log |-> 0, msgs |-> AudioMessages, faults |-> {"none"}]

NextLive ==
  \/ UserStep(LiveBounds)
  \/ SessionStep(LiveBounds)
  \/ MessageStep(LiveBounds)
  \/ PlaybackClockStep(LiveBounds)

SpecLive ==
  /\ Init /\ [][NextLive]_vars
  /\ WF_vars(\E c \in ChunkIds : Decoded(c))
  /\ WF_vars(EndedEventFollows)
  /\ WF_vars(PlaybackClockStep(LiveBounds))
  /\ WF_vars(CloseEventFollows)

\* A partial transcription of the user's speech, nothing else.
PartialMessage == [NoMessage EXCEPT !.inputTranscription = <<"a">>]

\* The transcript across sessions: two start attempts, one partial text,
\* the turn-complete signal and one audio chunk.
CarryBounds ==
  [sessions |-> MaxSessions, chunks |-> FewChunks, ticks |-> 0,
   len |-> 1, log |-> 1,
   msgs |-> {PartialMessage, TurnCompleteMessage,
             [NoMessage EXCEPT !.audio = "ok", !.duration = 1]},
   faults |-> {"none"}]

NextCarry ==
  UserStep(CarryBounds) \/ SessionStep(CarryBounds) \/ MessageStep(CarryBounds)

SpecCarry == Init /\ [][NextCarry]_vars

\* ------------------------------------------------- claims
HandlesNull ==
  /\ sessionRef = NULL
  /\ streamRef = NULL
  /\ audioContextInRef = NULL
  /\ audioContextOutRef = NULL
  /\ activeSourcesRef = {}

\* No transport is connecting or open, no microphone stream is live, no audio
\* context is running and every handle is null.
Released ==
  /\ HandlesNull
  /\ \A s \in Sessions :
       /\ ws[s] \notin {"connecting", "open", "failed"}
       /\ stream[s] # "live"
       /\ ctxIn[s] # "running"
       /\ ctxOut[s] # "running"

\* C1: whenever a chunk is started, its start time is at least the end of the
\* chunk started before it (since the last interruption) and at least the
\* playback context's currentTime at the moment the chunk's message arrived.
C1_SchedulerOrdering ==
  [][\A c \in ChunkIds :
       (chunks[c].st = "decoding" /\ chunks'[c].st # "decoding")
         => /\ nextStartTimeRef >= lastEnd
            /\ nextStartTimeRef >= chunks[c].enq]_vars

\* C2, as claimed: in every state of a session the cursor is at least the
\* playback context's clock and at least the end of the chunk scheduled last.
C2_CursorInvariant ==
  /\ audioContextOutRef # NULL
       => nextStartTimeRef >= CurrentTime(audioContextOutRef)
  /\ nextStartTimeRef >= lastEnd

\* C2, amended: the cursor is at least the end of the chunk scheduled last
\* since the last interruption in every state, and at least the playback
\* context's clock when the audio branch has just clamped it.
C2_CursorAmended ==
  /\ nextStartTimeRef >= lastEnd
  /\ last.clamped
       => /\ audioContextOutRef # NULL
          /\ nextStartTimeRef >= CurrentTime(audioContextOutRef)

\* The clamp has just moved the cursor past the end of the last chunk.
C2_Witness ==
  /\ last.clamped
  /\ lastEnd > 0
  /\ nextStartTimeRef > lastEnd

\* C3: when the handler has finished with a message that carried the
\* interruption signal, activeSources is empty, the cursor is 0 and the
\* model-speaking flag is false.
C3_InterruptClears ==
  last.signal
    => /\ activeSourcesRef = {}
       /\ nextStartTimeRef = 0
       /\ ~isModelSpeaking

\* C4: after cleanup activeSources is empty and the cursor is 0, and a start
\* request finds the cursor at 0.
C4_TeardownResetsScheduler ==
  /\ last.op \in CleanupOps => activeSourcesRef = {} /\ nextStartTimeRef = 0
  /\ last.op = "start" => nextStartTimeRef = 0

\* A string with a character that is not whitespace.
NotBlank(s) == \E i \in 1..Len(s) : s[i] # " "

ExpectedEntries(in, out) ==
  (IF NotBlank(in) THEN <<[role |-> "user", text |-> in]>> ELSE <<>>)
  \o (IF NotBlank(out) THEN <<[role |-> "model", text |-> out]>> ELSE <<>>)

IsPrefix(a, b) == Len(a) <= Len(b) /\ SubSeq(b, 1, Len(a)) = a

\* C5: a turn-complete flush of buffers (in, out), the buffers with the
\* message's own partial texts appended, extends the log by the user entry of
\* in if in is not all whitespace, then the model entry of out if out is not
\* all whitespace, and nothing else, and leaves both buffers empty.
C5_TranscriptFlush ==
  [][last'.turnComplete
       => /\ transcriptionBufferRef' = EmptyBuffer
          /\ \E ti \in TextOpt, to \in TextOpt :
               transcriptions' =
                 transcriptions \o
                   ExpectedEntries(transcriptionBufferRef.input \o ti,
                                   transcriptionBufferRef.output \o to)]_vars

\* A flush has committed the buffer "a " as one user entry and nothing else.
C5_Witness ==
  /\ last.turnComplete
  /\ transcriptions = <<[role |-> "user", text |-> <<"a", " ">>]>>
  /\ transcriptionBufferRef = EmptyBuffer

\* C6: the log changes only in a step that runs the turn-complete flush, and
\* then by appending; a step that does not flush only extends the buffers.
C6_LogAppendOnly ==
  [][/\ transcriptions' # transcriptions
          => /\ last'.turnComplete
             /\ IsPrefix(transcriptions, transcriptions')
     /\ ~last'.turnComplete
          => /\ IsPrefix(transcriptionBufferRef.input,
                         transcriptionBufferRef'.input)
             /\ IsPrefix(transcriptionBufferRef.output,
                         transcriptionBufferRef'.output)]_vars

\* A teardown on the close event with two entries in the log.
C6_Witness ==
  /\ last.op = "onclose"
  /\ Len(transcriptions) = 2

\* C7: after cleanup every handle is null and activeSources is empty, and a
\* second run of cleanup right after the first changes nothing but the
\* transport whose close event called it.
C7_IdempotentTeardown ==
  /\ [](last.op \in CleanupOps => HandlesNull)
  /\ [][(last.op \in CleanupOps /\ last'.op \in CleanupOps)
          => /\ UNCHANGED <<status, transcriptions, isModelSpeaking,
                            errorMessage, hasRecorded, audioContextInRef,
                            audioContextOutRef, sessionRef, nextStartTimeRef,
                            activeSourcesRef, transcriptionBufferRef, streamRef,
                            stream, ctxIn, ctxOut, chunks,
                 pending, sent, dropped>>
             /\ \A s \in Sessions :
                  ws'[s] = ws[s] \/ (last'.op = "onclose" /\ ws'[s] = "closed")]_vars

\* Cleanup has run twice in a row, the first time on a connected session.
C7_Witness ==
  /\ last.op \in CleanupOps
  /\ last.again
  /\ \E s \in Sessions : stream[s] = "stopped" /\ ctxOut[s] = "closed"

\* C8: when cleanup has returned, every transport is closed, every microphone
\* stream stopped, every audio context closed and every handle null.
C8_TeardownComplete == last.op \in CleanupOps => Released

\* C9: when one release call of cleanup has failed, every other handle is
\* null, activeSources is empty and the status is idle.
C9_GuardedRelease ==
  (last.op \in CleanupOps /\ last.fault # "none")
    => /\ status = IDLE
       /\ sessionRef = NULL
       /\ last.fault # "track" => streamRef = NULL
       /\ audioContextInRef = NULL
       /\ audioContextOutRef = NULL
       /\ activeSourcesRef = {}

\* C10: after a microphone denial, a failed connect, a transport error or a
\* close event every owned resource has been released.
C10_FatalFunnelsTeardown ==
  last.op \in {"micDenied", "connectFailed", "onerror", "onclose"} => Released

\* The presentation layer's handlers.
UserOps == {"start", "stop", "logout"}

\* The non-null values of errorMessage.
ErrorMessages == {MsgInitError, MsgLinkError}

\* C11: after onerror the status is error and the error message is set, and
\* while the status is error with the transport's message no step other than a
\* user action (start, stop, logout) changes the status.
C11_ErrorPersists ==
  /\ [](last.op = "onerror" => status = ERROR /\ errorMessage \in ErrorMessages)
  /\ [][(status = ERROR /\ errorMessage = MsgLinkError /\ last'.op \notin UserOps)
          => status' = ERROR]_vars

\* More than one member.
Several(S) == Cardinality(S) > 1

\* C12: at most one transport is opened and not yet closed, at most one
\* microphone stream is live and at most one capture context and one playback
\* context are running.
C12_OneSession ==
  /\ ~Several({s \in Sessions : ws[s] \in {"open", "failed", "closing"}})
  /\ ~Several({s \in Sessions : stream[s] = "live"})
  /\ ~Several({s \in Sessions : ctxIn[s] = "running"})
  /\ ~Several({s \in Sessions : ctxOut[s] = "running"})

\* C13: handleStartSession is invoked only when the status is idle or error.
C13_StartDisabled ==
  [][last'.op = "start" => status \in {IDLE, ERROR}]_vars

\* A second start request has been accepted.
C13_Witness ==
  /\ last.op = "start"
  /\ nsess = 2
  /\ status = CONNECTING

\* C14: when getUserMedia has rejected for a start attempt, the attempt has
\* ended with status error and the error message set, and no transport is ever
\* opened and no microphone stream ever held for that attempt.
C14_MicDenied ==
  /\ last.op = "micDenied" => status = ERROR /\ errorMessage = MsgInitError
  /\ \A s \in Sessions :
       pc[s] = "denied" => ws[s] = "none" /\ stream[s] = "none"

\* The second start attempt is connected and the first was denied the
\* microphone.
C14_Witness ==
  /\ pc[1] = "denied"
  /\ ws[2] = "open"
  /\ status = CONNECTED

\* C15: the step in which a payload fails to decode leaves the status, the
\* transport, activeSources and every chunk as they were; a chunk exists only
\* for a payload that decodes; and after a failure a chunk whose decode
\* resolves is started, no earlier than the end of the chunk scheduled before
\* it, and added to activeSources (and stopped at once only if its own
\* message carried the interruption signal).
C15_MalformedAudioNonFatal ==
  /\ [](\A c \in ChunkIds : chunks[c].st = "decoding" => chunks[c].dur \in Durations)
  /\ [][last'.op = "decodeThrew"
          => /\ dropped'
             /\ UNCHANGED <<status, ws, activeSourcesRef, chunks, lastEnd>>
             /\ nextStartTimeRef' >= nextStartTimeRef]_vars
  /\ [][\A c \in ChunkIds :
          (dropped /\ chunks[c].st = "decoding" /\ chunks'[c].st # "decoding")
            => /\ nextStartTimeRef >= lastEnd
               /\ IF chunks[c].intr
                    THEN chunks'[c].st = "stopped" /\ activeSourcesRef' = {}
                    ELSE chunks'[c].st = "playing" /\ c \in activeSourcesRef']_vars

\* After a payload failed to decode, a chunk's decode has resolved and the
\* chunk is playing on the connected session.
C15_Witness ==
  /\ dropped
  /\ last.op = "decoded"
  /\ status = CONNECTED
  /\ \E c \in activeSourcesRef : chunks[c].st = "playing"

\* C16: no captured frame of a start attempt is handed to the transport once
\* cleanup has stopped that attempt's microphone stream.
C16_NoFramesAfterStop ==
  last.dispatched # NULL => stream[last.dispatched] # "stopped"

HolaLog == <<[role |-> "user", text |-> Hola]>>

\* C17: in the conversation turn of SpecScenario the log is empty until the
\* turn-complete and holds exactly the user entry "Hola" from then on; the
\* chunk is started no earlier than the playback clock stood when its message
\* arrived; and after the interruption activeSources is empty and the
\* model-speaking flag is false.
C17_EndToEnd ==
  /\ [](transcriptions \in {<<>>, HolaLog})
  /\ [](last.turnComplete => transcriptions = HolaLog)
  /\ [][\A c \in ChunkIds :
          (chunks[c].st = "decoding" /\ chunks'[c].st = "playing")
            => /\ nextStartTimeRef >= chunks[c].enq
               /\ c \in activeSourcesRef'
               /\ isModelSpeaking']_vars
  /\ [](last.signal => activeSourcesRef = {} /\ ~isModelSpeaking)

\* The turn has run to its end: every frame sent, "Hola" in the log, the
\* chunk started after the clock had advanced and stopped by the interruption.
C17_Witness ==
  /\ sent = MaxFrames
  /\ transcriptions = HolaLog
  /\ last.signal
  /\ nextStartTimeRef = 0
  /\ \E c \in ChunkIds : chunks[c].st = "stopped"
  /\ \E s \in Sessions : clock[s] > 0 /\ status = CONNECTED

\* C18: the status becomes connected only from connecting, and becomes
\* connecting only in the step of a start request.
C18_StatusMachine ==
  [][/\ (status' = CONNECTED /\ status # CONNECTED) => status = CONNECTING
     /\ (status' = CONNECTING /\ status # CONNECTING) => last'.op = "start"]_vars

\* C19: whenever activeSources is not empty the model-speaking flag is true.
C19_SpeakingWhileActive == activeSourcesRef # {} => isModelSpeaking

\* C20: whenever the model-speaking flag is true, it becomes false or a
\* further audio message arrives.
C20_SpeakingFlagReturns ==
  isModelSpeaking ~> (~isModelSpeaking \/ last.audio)

\* C21: when start attempt a was stopped (its transport closed by cleanup) and
\* a later attempt b has started, the close event of a's transport leaves b's
\* transport, microphone stream, audio contexts and playback sources and the
\* status as they were.
C21_OldCallbacksHarmless ==
  [][\A a, b \in Sessions :
       (/\ a < b /\ pc[b] # "none"
        /\ last'.op = "onclose"
        /\ ws[a] = "closing" /\ ws'[a] = "closed")
         => /\ ws'[b] = ws[b]
            /\ stream'[b] = stream[b]
            /\ ctxIn'[b] = ctxIn[b]
            /\ ctxOut'[b] = ctxOut[b]
            /\ \A c \in ChunkIds : chunks[c].ctx = b => chunks'[c] = chunks[c]
            /\ status' = status]_vars

\* C22: both transcript buffers are empty when a new session starts, so no
\* text buffered during a session that was torn down appears in an entry
\* committed during a later one.
C22_BuffersEmptyAtStart ==
  last.op = "start" => transcriptionBufferRef = EmptyBuffer

\* C23: when a message's interruption signal has just been processed while
\* the decode of a chunk that arrived earlier is still awaited, the next step
\* neither starts that chunk nor adds it to activeSources, and unless that
\* step enqueues a new chunk, activeSources stays empty and nextStartTime
\* stays 0.
C23_StaleChunkNotStarted ==
  [][\A c \in ChunkIds :
       (/\ last.op = "onmessage" /\ last.interrupted
        /\ chunks[c].st = "decoding")
         => /\ chunks'[c].st # "playing"
            /\ c \notin activeSourcesRef'
            /\ ~last'.audio => /\ activeSourcesRef' = {}
                               /\ nextStartTimeRef' = InterruptCursor]_vars

=============================================================================
